---- MODULE Spec2Model ----
(***************************************************************************)
(* rebuild-aio (src/watch.js, the chokidar revision, lines 555-1266):      *)
(* the child supervisor, the restart debouncer, the shutdown coordinator   *)
(* and the initial scan loop, as one state machine.                        *)
(*                                                                         *)
(* Node runs every callback to its first await without interruption, so    *)
(* one action is one callback run: a timer expiry, a child event, a        *)
(* signal, or the resumption of an async function after an await.          *)
(***************************************************************************)
EXTENDS Integers, Sequences, FiniteSets, TLC

\* ------------------------------------------------------------------ bounds
\* Child processes alive at the same time.
MaxProcs == 4
\* Files flattenChokidarWatched returns for one watch directory (at least the
\* directory itself).
MaxFiles == 2
\* Events the environment causes after start-up: restart() calls of write and
\* copy callbacks and of the unlink handler, and uncaught errors.
MaxEvents == 1
\* The 300 ms debounce window, in clock ticks.
DebounceTicks == 2

\* ------------------------------------------------------------ configuration
\* The command lines that are modelled: --fork fa --fork fb with two --kill
\* ports, and --fork fa --spawn sc with none; two --watch directories.
Configs ==
  { [fork |-> <<"fa", "fb">>, spawn |-> <<>>, kill |-> <<3000, 3001>>],
    [fork |-> <<"fa">>, spawn |-> <<"sc">>, kill |-> <<>>] }
watchDirs == <<"src", "lib">>

Idle == -1

\* const outDir (argv --output).
outDir == "out"

\* The regular files the watch directories may hold, as path segments:
\* src/f.txt, which no --transform glob matches, and src/g.js, which one does.
SourcePaths == {<<"src", "f.txt">>, <<"src", "g.js">>}

\* getOutDirPath (lines 920-923): the first segment goes, the rest is resolved
\* under outDir.
getOutDirPath(filepath) == <<outDir>> \o Tail(filepath)

OutPaths == {getOutDirPath(p) : p \in SourcePaths}

\* const shouldTransform in pass (lines 934-936): a --transform glob matches.
shouldTransform(f) == f = <<"src", "g.js">>

\* The contents a source file may have (0: the file does not exist), and how
\* many add, change and unlink events a run of BuildSpec sees.
MaxVersion == 2
MaxChanges == 2

\* The string the transformer (--using) makes of contents: never the contents
\* themselves.
TransformShift == 10
transform(contents) == contents + TransformShift

\* The command lines of BuildSpec: a one-shot build, and a watched build.
BuildConfigs ==
  { [fork |-> <<>>, spawn |-> <<>>, kill |-> <<>>],
    [fork |-> <<"fa">>, spawn |-> <<>>, kill |-> <<>>] }

VARIABLES
  forkCommands,    \* const forkCommands (argv --fork)
  spawnCommands,   \* const spawnCommands (argv --spawn)
  killPorts,       \* const killPorts (argv --kill)
  children,        \* let children = {}: command -> slot of the Execution's child
  sigintHandled,   \* let sigintHandled = false
  crashDetected,   \* let crashDetected = false
  watchersSetup,   \* let watchersSetup = false
  procs,           \* child processes that have not exited: slot -> Execution
                   \* and its listeners
  passes,          \* makeChildren invocations suspended at an await
  finals,          \* finalPortKilling invocations suspended at await kill(port)
  exited,          \* process.exit() has been called
  debounce,        \* the lodash.debounce timer of restart: Idle or ticks left
  scanDir,         \* index in watchDirs of the directory being scanned
  scanLeft,        \* Idle while awaiting 'ready', else files of the list left
  eventsLeft,      \* events the environment may still cause
  sinceNotify,     \* history: ticks since the last restart() call
  pendingNotify,   \* history: restart() calls since the debounced function ran
  exitCode,        \* the exit code of the process, Idle while it runs
  source,          \* the regular files under the watch directories: contents
  output,          \* the regular files under outDir: contents
  ops,             \* pass() calls awaiting transform, fs.copyFile and
                   \* fs.writeFile calls whose callback is pending
  prodDeps,        \* const prodDeps: the folders getProdDeps has collected
  resolveDir,      \* index in watchDirs of the directory getProdDeps awaits
  tree,            \* the package.json files and node_modules folders on disk
  watched,         \* watcher.getWatched() of the scan of src: the paths the
                   \* ignored filter has let through so far
  visit            \* index in FilterOrder of the path the watcher looks at next

argv == <<forkCommands, spawnCommands, killPorts>>
vars == <<forkCommands, spawnCommands, killPorts, children, sigintHandled,
          crashDetected, watchersSetup, procs, passes, finals, exited,
          debounce, scanDir, scanLeft, eventsLeft, sinceNotify, pendingNotify,
          exitCode, source, output, ops, prodDeps, resolveDir, tree,
          watched, visit>>

Range(s) == {s[i] : i \in 1..Len(s)}
Commands == Range(forkCommands) \cup Range(spawnCommands)

\* The state the supervisor's callbacks read and write, as one record.
World ==
  [children |-> children, sigintHandled |-> sigintHandled,
   crashDetected |-> crashDetected, procs |-> procs, passes |-> passes,
   finals |-> finals, exited |-> exited, exitCode |-> exitCode,
   overflow |-> FALSE]

Commit(w) ==
  /\ ~w.overflow
  /\ children' = w.children
  /\ sigintHandled' = w.sigintHandled
  /\ crashDetected' = w.crashDetected
  /\ procs' = w.procs
  /\ passes' = w.passes
  /\ finals' = w.finals
  /\ exited' = w.exited
  /\ exitCode' = w.exitCode

Delete(f, k) == [x \in DOMAIN f \ {k} |-> f[x]]
\* Object.values(children): the slots of the registered Executions.
Registered(w) == {w.children[k] : k \in DOMAIN w.children}
RemoveAt(s, p) == [j \in 1..(Len(s) - 1) |-> IF j < p THEN s[j] ELSE s[j + 1]]
Min(S) == CHOOSE x \in S : \A y \in S : x <= y

\* ---------------------------------------------------------------- resolver
\* Folders are paths relative to the working directory, as segments. The one
\* top-level manifest the watch directories may hold is src/package.json.
NM == "node_modules"
Top == <<"src">>

\* The names a manifest may list: a, b and the scoped @o/c.
PkgA == <<"a">>
PkgB == <<"b">>
PkgC == <<"@o", "c">>
Names == {PkgA, PkgB, PkgC}

\* `${dir}/node_modules/${name}` (lines 998, 1036).
Install(dir, name) == dir \o <<NM>> \o name

\* path.dirname.
Parent(dir) == SubSeq(dir, 1, Len(dir) - 1)

\* The folders a package may be installed in: flat under the top-level
\* package, b nested under a, and b hoisted to the working directory.
FlatA == Install(Top, PkgA)
FlatB == Install(Top, PkgB)
FlatC == Install(Top, PkgC)
NestedB == Install(FlatA, PkgB)
HoistedB == Install(<<>>, PkgB)
Candidates == {FlatA, FlatB, FlatC, NestedB, HoistedB}

\* No package.json under the watch directories.
EmptyTree ==
  [hasTop |-> FALSE, top |-> {}, deps |-> [p \in {} |-> {}], links |-> {}]

\* The trees a run may find: what the top-level manifest lists, which folders
\* are installed, each with the dependencies of its manifest (a may need b,
\* the flat b may need a, the nested b needs @o/c), and whether a is linked.
Trees ==
  { [hasTop |-> TRUE, top |-> top,
     deps |-> [p \in ex |->
                 IF p = FlatA THEN da
                 ELSE IF p = FlatB THEN db
                 ELSE IF p = NestedB THEN {PkgC}
                 ELSE {}],
     links |-> IF la THEN {FlatA} \cap ex ELSE {}] :
      top \in {{}, {PkgA}, {PkgA, PkgB}, {PkgC}},
      ex \in SUBSET Candidates, la \in BOOLEAN,
      da \in {{}, {PkgB}}, db \in {{}, {PkgA}} }

\* Where the symbolic links that lead to another folder of the tree point: a's
\* node_modules/b to the flat b, and the flat b's node_modules/a to a (npm
\* link of each in the other). A linked a stands for the folder it points to.
BackLink == Install(FlatB, PkgA)
LinkTarget(q) ==
  IF q = NestedB THEN FlatB ELSE IF q = BackLink THEN FlatA ELSE q

\* The folder a path leads to, its symbolic links followed.
RECURSIVE Real(_)
Real(p) ==
  IF p = <<>> THEN p
  ELSE LET q == Real(Parent(p)) \o <<p[Len(p)]>>
       IN IF q \in tree.links THEN LinkTarget(q) ELSE q

\* The number of symbolic links the resolution of p follows.
RECURSIVE LinksIn(_)
LinksIn(p) ==
  IF p = <<>> THEN 0
  ELSE LinksIn(Parent(p))
         + (IF Real(Parent(p)) \o <<p[Len(p)]>> \in tree.links THEN 1 ELSE 0)

\* The links the operating system follows in one path before it gives up with
\* ELOOP (40 on Linux).
MaxLinks == 3

\* fs.pathExistsSync of an install folder.
pathExistsSync(p) == Real(p) \in DOMAIN tree.deps

\* What escalade returns when nothing is found.
NotFound == <<>>

\* escalade(start, callback) with the callback of lines 1035-1040: from
\* start upwards, the first directory that holds node_modules/<name>. The
\* working directory is the root of the modelled file system.
RECURSIVE escalade(_, _)
escalade(dir, name) ==
  IF pathExistsSync(Install(dir, name)) THEN Install(dir, name)
  ELSE IF dir = <<>> THEN NotFound
  ELSE escalade(Parent(dir), name)

\* fs.readdirSync of dir/node_modules can be done: something is installed in
\* it.
hasNodeModules(dir) ==
  \E p \in DOMAIN tree.deps \cup tree.links :
    /\ Len(p) > Len(Real(dir)) + 1
    /\ SubSeq(p, 1, Len(Real(dir)) + 1) = Real(dir) \o <<NM>>

\* The folders of dir/node_modules that are symbolic links (lines 1008-1017,
\* 1056-1066).
Symlinks(dir) ==
  {Install(dir, x) : x \in {n \in Names : Install(Real(dir), n) \in tree.links}}

\* One round of the while loop without the loop: the folders are never looked
\* into.
ExpandNothing(P, newlyAdded) == [error |-> "none", set |-> P]

\* The while loop of addProdDeps (lines 1020-1070), round by round: the
\* manifest of every newly added folder is read, each dependency resolved and
\* added, and what was not yet in prodDeps goes to the next round; a symbolic
\* link of the folder's node_modules goes to the next round in any case. A
\* path with more links than the operating system follows makes
\* fs.readJsonSync throw.
RECURSIVE Expand(_, _)
Expand(P, newlyAdded) ==
  IF newlyAdded = {} THEN [error |-> "none", set |-> P]
  ELSE IF \E D \in newlyAdded : LinksIn(D) > MaxLinks
    THEN [error |-> "ELOOP", set |-> P]
  ELSE IF \E D \in newlyAdded : ~pathExistsSync(D)
    THEN [error |-> "ENOENT", set |-> P]
  ELSE IF \E D \in newlyAdded :
            \E x \in tree.deps[Real(D)] : escalade(D, x) = NotFound
    THEN [error |-> "unresolved", set |-> P]
  ELSE LET found == {escalade(D, x) : <<D, x>> \in
                       {dx \in newlyAdded \X Names :
                          dx[2] \in tree.deps[Real(dx[1])]}}
           linked == UNION {Symlinks(D) : D \in newlyAdded}
           nextNewlyAdded == (found \ P) \cup linked
       IN Expand(P \cup nextNewlyAdded, nextNewlyAdded)

\* addProdDeps(key, prodDeps) for key src/package.json (lines 987-1071): what
\* is thrown, if anything, and the folders collected.
addProdDeps ==
  IF ~hasNodeModules(Top) THEN [error |-> "ENOENT", set |-> {}]
  ELSE LET newlyAdded == {Install(Top, x) : x \in tree.top} \cup Symlinks(Top)
       IN Expand(newlyAdded, newlyAdded)

\* The org-level entries (lines 1136-1146): the path without its last
\* segment, for every path with a segment node_modules followed by an @scope.
Scopes == {"@o"}
OrgExpansion(P) ==
  P \cup {Parent(p) : p \in {q \in P : \E i \in 1..Len(q) - 1 :
                                       q[i] = NM /\ q[i + 1] \in Scopes}}

\* ------------------------------------------------------------------ filter
Last(file) == file[Len(file)]

\* file.endsWith('~') and file.endsWith('.bin'), for the names of the model.
TempNames == {"junk~"}
BinNames == {".bin"}

\* The index of the first node_modules segment of file.
FirstNM(file) == Min({i \in 1..Len(file) : file[i] = NM})

\* The match of the regular expression of line 1197,
\* ^(.+?\/(?:node_modules\/(?:@.+?\/)?.+?\/)+), on file + '/', from the
\* node_modules segment at index i: the index of the segment at which match[1]
\* ends. A group is node_modules, an @scope if a name follows it, and a name;
\* groups repeat while the next segment is node_modules again.
RECURSIVE PackageEnd(_, _)
PackageEnd(file, i) ==
  LET e == IF file[i + 1] \in Scopes /\ i + 2 <= Len(file) THEN i + 2 ELSE i + 1
  IN IF e + 2 <= Len(file) /\ file[e + 1] = NM
       THEN PackageEnd(file, e + 1)
       ELSE e

\* const packagePath (line 1198).
packagePath(file) == SubSeq(file, 1, PackageEnd(file, FirstNM(file)))

\* A filter that ignores a .bin entry wherever it is.
ignoredBinEverywhere(file) ==
  IF Last(file) \in TempNames THEN FALSE
  ELSE IF Last(file) \in BinNames THEN TRUE
  ELSE IF \E i \in 1..Len(file) : file[i] = NM
    THEN IF Last(file) = NM THEN FALSE
         ELSE packagePath(file) \notin prodDeps
    ELSE FALSE

\* The ignored function of the scan's watcher (lines 1177-1203): TRUE when
\* what it returns is truthy. For a temp file it returns undefined.
ignored(file) ==
  IF Last(file) \in TempNames THEN FALSE
  ELSE IF \E i \in 1..Len(file) : file[i] = NM
    THEN IF Last(file) = NM THEN FALSE
         ELSE IF Last(file) \in BinNames THEN TRUE
         ELSE packagePath(file) \notin prodDeps
    ELSE FALSE

\* What is in src/node_modules besides the installed packages, when it
\* exists: .bin, a temp file, and a package z that no manifest lists.
PkgZ == Install(Top, <<"z">>)
Extras ==
  {Top \o <<NM>>, Top \o <<NM, ".bin">>, Top \o <<NM, "junk~">>,
   PkgZ, PkgZ \o <<"index.js">>}

\* What src holds outside node_modules: a folder .bin with a file in it, a
\* temp file and a regular file.
Plain ==
  {Top \o <<".bin">>, Top \o <<".bin", "run">>, Top \o <<"junk~">>,
   Top \o <<"f.txt">>}

\* A package q that a ships among its test fixtures.
Fixture == FlatA \o <<"test">> \o <<NM>> \o <<"q">>

\* The paths under src that are on disk: every installed folder with a file
\* in it and the folders that lead to it, the fixture of a, and the extras.
OnDisk ==
  LET under == {D \in DOMAIN tree.deps : D[1] = Top[1]}
  IN UNION {{SubSeq(D, 1, n) : n \in 2..Len(D)} \cup {D \o <<"index.js">>} :
              D \in under}
       \cup (IF FlatA \in under
               THEN {SubSeq(Fixture, 1, n) : n \in 4..Len(Fixture)}
                      \cup {Fixture \o <<"index.js">>}
               ELSE {})
       \cup (IF hasNodeModules(Top) THEN Extras ELSE {})
       \cup Plain

\* The order in which the watcher of src comes to the paths: a folder before
\* what is in it.
FilterOrder ==
  << Top \o <<".bin">>, Top \o <<".bin", "run">>,
     Top \o <<"f.txt">>, Top \o <<"junk~">>,
     Top \o <<NM>>,
     Top \o <<NM, ".bin">>, Top \o <<NM, "junk~">>,
     PkgZ, PkgZ \o <<"index.js">>,
     FlatA, FlatA \o <<"index.js">>,
     FlatA \o <<NM>>, NestedB, NestedB \o <<"index.js">>,
     FlatA \o <<"test">>, FlatA \o <<"test", NM>>,
     Fixture, Fixture \o <<"index.js">>,
     FlatB, FlatB \o <<"index.js">>,
     Top \o <<NM, "@o">>, FlatC, FlatC \o <<"index.js">> >>

\* process.exit(code): the process ends with the code given or, with none
\* given (Idle), with process.exitCode, which nothing ever sets: 0.
ProcessExit(w, code) ==
  [w EXCEPT !.exited = TRUE, !.exitCode = IF code = Idle THEN 0 ELSE code]

\* ------------------------------------------------------ finalPortKilling
\* finalPortKilling up to its first await: with no port it logs "stopped" and
\* calls process.exit(); otherwise it logs the first port and awaits kill(port).
\* A run is the index in killPorts of the port whose kill it awaits.
finalPortKilling(w) ==
  IF Len(killPorts) = 0
    THEN ProcessExit(w, Idle)
    ELSE [w EXCEPT !.finals = Append(@, 1)]

\* ---------------------------------------------------------- makeChildren
\* Registering under the program name, the first word of the command line.
ChildKeyProgram(command) == "node"

\* The key under which makeChildren registers an Execution: children[command].
ChildKey(command) == command

NewExecution(command, type) ==
  [command |-> command, type |-> type,
   spawned |-> (type = "spawn"),  \* nothing listens to a spawn child's 'spawn'
   listeners |-> <<>>,            \* exit listeners added by restart ("r") and SIGINT ("s")
   killTimeout |-> "none",        \* execution.killTimeout: none, restart or sigint
   killed |-> FALSE,              \* child.kill() has been called on it
   failed |-> FALSE,              \* child 'error': no process was created
   drain |-> FALSE]               \* history: in R when the latest draining restart ran

FreeSlots(w) == (1..MaxProcs) \ DOMAIN w.procs

\* fork(...) or spawn(...), child.on('exit', ...) and children[command] = {...}.
StartChild(w, command, type) ==
  IF FreeSlots(w) = {}
    THEN [w EXCEPT !.overflow = TRUE]
    ELSE LET s == Min(FreeSlots(w))
         IN [w EXCEPT
               !.procs = (s :> NewExecution(command, type)) @@ @,
               !.children = (ChildKey(command) :> s) @@ @]

RECURSIVE SpawnLoop(_, _)
\* for (const command of spawnCommands), from index k (no await in it).
SpawnLoop(w, k) ==
  IF k > Len(spawnCommands) \/ w.overflow THEN w
  ELSE IF spawnCommands[k] \in DOMAIN w.children
    THEN SpawnLoop(w, k + 1)
    ELSE SpawnLoop(StartChild(w, spawnCommands[k], "spawn"), k + 1)

\* The pass of makeChildren that has just forked forkCommands[i] into slot s and
\* awaits continuePromise: phase is the await the promise's executor is at
\* (spawnPromise, the delay(500) of grace, the delay(500) of the wait loop).
NewPass(i, s) ==
  [i |-> i, child |-> s, phase |-> "spawn", wait |-> FALSE,
   pauseForkingTimeout |-> "null"]

RECURSIVE ForkLoop(_, _)
\* for (const command of forkCommands), from index i up to the next
\* "await continuePromise", or through the spawn loop to the end.
ForkLoop(w, i) ==
  IF i > Len(forkCommands) THEN SpawnLoop(w, 1)
  ELSE IF forkCommands[i] \in DOMAIN w.children
    THEN ForkLoop(w, i + 1)
    ELSE LET w1 == StartChild(w, forkCommands[i], "fork")
         IN IF w1.overflow THEN w1
            ELSE [w1 EXCEPT
                    !.passes = Append(@, NewPass(i, Min(FreeSlots(w))))]

\* A makeChildren that starts the spawn commands before it forks.
makeChildrenSpawnFirst(w) == ForkLoop(SpawnLoop(w, 1), 1)

\* A makeChildren that kills the configured ports after starting the children.
makeChildrenKillingPorts(w) == finalPortKilling(ForkLoop(w, 1))

makeChildren(w) == ForkLoop(w, 1)

\* --------------------------------------------------------- exit listeners
\* The exit listener restart attaches (lines 881-895), for Execution e.
RestartExitListener(w, e) ==
  LET w1 == [w EXCEPT !.children = Delete(@, e.command)]
  IN IF DOMAIN w1.children = {} THEN makeChildren(w1) ELSE w1

\* The exit listener the SIGINT handler attaches (lines 711-722).
SigintExitListener(w, e) ==
  LET w1 == [w EXCEPT !.children = Delete(@, e.command)]
  IN IF DOMAIN w1.children = {} THEN finalPortKilling(w1) ELSE w1

RECURSIVE RunListeners(_, _, _)
\* The listeners restart and SIGINT added, called in the order they were
\* added; process.exit() ends the dispatch.
RunListeners(w, e, j) ==
  IF j > Len(e.listeners) \/ w.exited \/ w.overflow THEN w
  ELSE RunListeners(
         IF e.listeners[j] = "r"
           THEN RestartExitListener(w, e)
           ELSE SigintExitListener(w, e),
         e, j + 1)

\* A supervisor that starts the children again as soon as one crashes.
ExitEventRestarting(w, s, code) ==
  LET w1 == [w EXCEPT !.procs = Delete(@, s),
                      !.children = Delete(@, w.procs[s].command),
                      !.crashDetected = @ \/ code # 0]
  IN IF code # 0 THEN makeChildren(w1) ELSE w1

\* child 'exit' with `code`: the listener makeChildren attached (lines 757-768,
\* 843-854) runs first, then the others.
ExitEvent(w, s, code) ==
  LET e == w.procs[s]
      w1 == [w EXCEPT
               !.procs = Delete(@, s),
               !.passes = [q \in 1..Len(@) |->
                             IF @[q].child = s THEN [@[q] EXCEPT !.child = 0]
                             ELSE @[q]],
               !.children = Delete(@, e.command),
               !.crashDetected = @ \/ code # 0]
  IN RunListeners(w1, e, 1)

\* ------------------------------------------------------------------ clean
\* A cleanup that hands every signal name to child.kill(signal).
defaultCleanupBySignal(spawnerType, signal) ==
  [os |-> IF signal = "SIGRES" /\ spawnerType = "fork" THEN "SIGTERM"
          ELSE signal,
   ipc |-> "none"]

\* The default cleanup (lines 662-676): what it delivers to the child, as the
\* OS signal of child.kill(...) (child.kill() sends SIGTERM) and the IPC
\* message of child.send(...).
defaultCleanup(spawnerType, signal) ==
  IF signal = "SIGINT" THEN [os |-> "SIGINT", ipc |-> "none"]
  ELSE IF spawnerType = "spawn" THEN [os |-> "SIGTERM", ipc |-> "none"]
  ELSE IF spawnerType = "fork" THEN [os |-> "none", ipc |-> "SIGRES"]
  ELSE [os |-> "none", ipc |-> "none"]

\* clean(execution, type, signal) for Execution e. The default cleanup
\* hard-kills (SIGTERM) only a spawn child on SIGRES; a --cleanup module
\* (custom) is not known to kill anything.
clean(e, signal, custom) ==
  IF ~custom /\ defaultCleanup(e.type, signal).os = "SIGTERM"
    THEN [e EXCEPT !.killed = TRUE]
    ELSE e

\* ---------------------------------------------------------------- restart
\* The drain branch of restart (lines 872-906), over Object.values(children).
Drain(w, custom) ==
  [w EXCEPT
     !.procs = [s \in DOMAIN @ |->
                  IF s \in Registered(w)
                    THEN [clean(@[s], "SIGRES", custom) EXCEPT
                            !.listeners = Append(@, "r"),
                            !.killTimeout = "restart",
                            !.drain = TRUE]
                    ELSE [@[s] EXCEPT !.drain = FALSE]]]

\* A restart that leaves crashDetected as it finds it.
restartKeepsFlag(w, custom) ==
  IF ~watchersSetup THEN w
  ELSE IF Len(forkCommands) = 0 /\ Len(spawnCommands) = 0 THEN w
  ELSE IF DOMAIN w.children # {}
    THEN Drain(w, custom)
    ELSE makeChildren(w)

\* A restart that does not wait for the watchers to be set up.
restartDuringScan(w, custom) ==
  IF Len(forkCommands) = 0 /\ Len(spawnCommands) = 0 THEN w
  ELSE IF DOMAIN w.children # {}
    THEN [Drain(w, custom) EXCEPT !.crashDetected = FALSE]
    ELSE [makeChildren(w) EXCEPT !.crashDetected = FALSE]

\* The function handed to debounce (lines 864-918).
restart(w, custom) ==
  IF ~watchersSetup THEN w
  ELSE IF Len(forkCommands) = 0 /\ Len(spawnCommands) = 0 THEN w
  ELSE IF DOMAIN w.children # {}
    THEN [Drain(w, custom) EXCEPT !.crashDetected = FALSE]
    ELSE [makeChildren(w) EXCEPT !.crashDetected = FALSE]

\* ----------------------------------------------------------------- SIGINT
\* process.on('SIGINT', ...) (lines 698-742).
SigintHandler(w, custom) ==
  IF w.sigintHandled THEN w
  ELSE LET w1 == [w EXCEPT !.sigintHandled = TRUE]
       IN IF DOMAIN w.children # {}
            THEN [w1 EXCEPT
                    !.procs = [s \in DOMAIN @ |->
                                 IF s \in Registered(w)
                                   THEN [clean(@[s], "SIGINT", custom) EXCEPT
                                           !.listeners = Append(@, "s"),
                                           !.killTimeout = "sigint"]
                                   ELSE @[s]]]
            ELSE finalPortKilling(w1)

\* The callback of execution.killTimeout of the Execution in slot s: restart's
\* timer kills that child, SIGINT's kills every child then in children.
KillTimeoutFired(w, s) ==
  LET hit == IF w.procs[s].killTimeout = "sigint" THEN Registered(w) ELSE {s}
  IN [w EXCEPT
        !.procs = [x \in DOMAIN @ |->
                     [@[x] EXCEPT
                        !.killed = @ \/ x \in hit,
                        !.killTimeout = IF x = s THEN "none" ELSE @]]]

\* ---------------------------------------------------------------- actions
\* A call that leaves the timer as it is.
RestartCallDropped(d) == d

\* A call that arms the timer only when none is running (no re-arming).
RestartCallNoRearm(d) == IF d = Idle THEN DebounceTicks ELSE d

\* restart(): a call of the debounced function (re)arms the timer to the full
\* window, whatever is left of it (trailing edge).
RestartCall(d) == DebounceTicks

Config == UNCHANGED argv
Supervisor == UNCHANGED <<children, sigintHandled, crashDetected, procs,
                          passes, finals, exited, exitCode>>
\* The output tree and the folders of getProdDeps are followed by BuildSpec and
\* ResolveSpec only: the other specifications leave them as they start.
Build == UNCHANGED <<source, output, ops, prodDeps, resolveDir, tree,
                     watched, visit>>
Mirror == UNCHANGED <<source, output, ops>>
Resolver == UNCHANGED <<prodDeps, resolveDir, tree, watched, visit>>
Scan == UNCHANGED <<watchersSetup, scanDir, scanLeft>>
Debouncer == UNCHANGED <<debounce, sinceNotify, pendingNotify>>

\* What follows the for-of loop over one directory's files (lines 1223-1266):
\* the change handlers are registered and the next directory is watched; after
\* the last directory watchersSetup is set, in the same run of the event loop.
AfterLoop ==
  /\ scanDir' = scanDir + 1
  /\ scanLeft' = Idle
  /\ watchersSetup' = (scanDir = Len(watchDirs))

\* watcher.on('ready'): the file list is known and the loop starts its first
\* await pass(key), unless sigintHandled breaks it.
WatcherReady ==
  /\ ~exited /\ scanDir <= Len(watchDirs) /\ scanLeft = Idle
  /\ resolveDir > Len(watchDirs)
  /\ \E n \in 1..MaxFiles :
       IF sigintHandled THEN AfterLoop ELSE
         /\ scanLeft' = n
         /\ UNCHANGED <<scanDir, watchersSetup>>
  /\ Config /\ Build /\ Supervisor /\ Debouncer /\ UNCHANGED eventsLeft

\* restart() as its callers see it: the debounced function is called.
RestartCalled ==
  /\ debounce' = RestartCall(debounce)
  /\ sinceNotify' = 0
  /\ pendingNotify' = IF pendingNotify < 2 THEN pendingNotify + 1 ELSE 2

\* What follows await pass(key) in the loop (lines 1219-1222): restart() is
\* called, and the loop goes on to the next key, breaks on sigintHandled, or
\* ends.
AfterPass ==
  /\ RestartCalled
  /\ IF scanLeft = 1 \/ sigintHandled THEN AfterLoop ELSE
       /\ scanLeft' = scanLeft - 1
       /\ UNCHANGED <<scanDir, watchersSetup>>

\* await pass(key) returns.
ScanFile ==
  /\ ~exited /\ scanDir <= Len(watchDirs) /\ scanLeft > 0
  /\ AfterPass
  /\ Config /\ Build /\ Supervisor /\ UNCHANGED eventsLeft

\* restart() called by a write or copy callback of pass (lines 963-980) or by
\* the unlink handler (line 1250).
Notify ==
  /\ ~exited /\ eventsLeft > 0
  /\ eventsLeft' = eventsLeft - 1
  /\ RestartCalled
  /\ Config /\ Build /\ Supervisor /\ Scan

\* Time passes while the debounce timer is armed.
Tick ==
  /\ ~exited /\ debounce > 0
  /\ debounce' = debounce - 1
  /\ sinceNotify' = IF sinceNotify < DebounceTicks THEN sinceNotify + 1
                    ELSE sinceNotify
  /\ Config /\ Build /\ Supervisor /\ Scan /\ UNCHANGED <<eventsLeft, pendingNotify>>

\* The debounce timer expires: the debounced function runs.
RestartFire ==
  /\ ~exited /\ debounce = 0
  /\ debounce' = Idle
  /\ pendingNotify' = 0
  /\ \E custom \in BOOLEAN : Commit(restart(World, custom))
  /\ Config /\ Build /\ Scan /\ UNCHANGED <<eventsLeft, sinceNotify>>

Sigint ==
  /\ ~exited
  /\ \E custom \in BOOLEAN : Commit(SigintHandler(World, custom))
  /\ Config /\ Build /\ Scan /\ Debouncer /\ UNCHANGED eventsLeft

\* process.on('uncaughtException', ...) (lines 693-695).
UncaughtException ==
  /\ ~exited /\ eventsLeft > 0
  /\ eventsLeft' = eventsLeft - 1
  /\ Commit(finalPortKilling(World))
  /\ Config /\ Build /\ Scan /\ Debouncer

KillTimeout(s) ==
  /\ ~exited /\ s \in DOMAIN procs /\ procs[s].killTimeout # "none"
  /\ Commit(KillTimeoutFired(World, s))
  /\ Config /\ Build /\ Scan /\ Debouncer /\ UNCHANGED eventsLeft

\* cleanup has been called on the child in slot s, or child.kill().
Told(s) == procs[s].listeners # <<>> \/ procs[s].killed

\* A child that was told to go ends; code 1 stands for any code other than 0
\* (null after a signal included).
ChildExit(s, code) ==
  /\ ~exited /\ s \in DOMAIN procs /\ procs[s].spawned /\ Told(s)
  /\ Commit(ExitEvent(World, s, code))
  /\ Config /\ Build /\ Scan /\ Debouncer /\ UNCHANGED eventsLeft

\* A child ends of its own accord.
ChildCrash(s, code) ==
  /\ ~exited /\ s \in DOMAIN procs /\ procs[s].spawned /\ ~Told(s)
  /\ Commit(ExitEvent(World, s, code))
  /\ Config /\ Build /\ Scan /\ Debouncer /\ UNCHANGED eventsLeft

\* A pass leaves the handshake of its fork and goes on with the loop.
Advance(w, p) ==
  ForkLoop([w EXCEPT !.passes = RemoveAt(@, p)], w.passes[p].i + 1)

\* child 'spawn': spawnPromise resolves and delay(500) starts. (child 'error'
\* is SpawnError, a step of ErrorSpec only.)
SpawnEvent(p) ==
  /\ ~exited /\ p \in 1..Len(passes) /\ passes[p].phase = "spawn"
  /\ passes' = [passes EXCEPT ![p].phase = "grace"]
  /\ procs' = [procs EXCEPT ![passes[p].child].spawned = TRUE]
  /\ UNCHANGED <<children, sigintHandled, crashDetected, finals, exited,
                 exitCode>>
  /\ Config /\ Build /\ Scan /\ Debouncer /\ UNCHANGED eventsLeft

\* The child of pass p runs and its IPC channel is open.
Talking(p) ==
  /\ p \in 1..Len(passes)
  /\ passes[p].child # 0 /\ passes[p].phase # "spawn"

\* child 'message' {pauseForking}: wait is set and the 30 s timeout armed (a
\* child sends it once).
PauseForking(p) ==
  /\ ~exited /\ Talking(p) /\ passes[p].pauseForkingTimeout = "null"
  /\ passes' = [passes EXCEPT ![p].wait = TRUE,
                              ![p].pauseForkingTimeout = "armed"]
  /\ UNCHANGED <<children, sigintHandled, crashDetected, procs, finals, exited,
                 exitCode>>
  /\ Config /\ Build /\ Scan /\ Debouncer /\ UNCHANGED eventsLeft

\* child 'message' {resumeForking}: continuePromise resolves at once.
ResumeForking(p) ==
  /\ ~exited /\ Talking(p)
  /\ Commit(Advance(World, p))
  /\ Config /\ Build /\ Scan /\ Debouncer /\ UNCHANGED eventsLeft

\* A timeout that logs and leaves wait as it is.
PauseTimeoutLogsOnly(p) ==
  /\ ~exited /\ p \in 1..Len(passes)
  /\ passes[p].pauseForkingTimeout = "armed"
  /\ passes' = [passes EXCEPT ![p].pauseForkingTimeout = "fired"]
  /\ UNCHANGED <<children, sigintHandled, crashDetected, procs, finals, exited,
                 exitCode>>
  /\ Config /\ Build /\ Scan /\ Debouncer /\ UNCHANGED eventsLeft

\* pauseForkingTimeout expires: wait is cleared.
PauseTimeout(p) ==
  /\ ~exited /\ p \in 1..Len(passes)
  /\ passes[p].pauseForkingTimeout = "armed"
  /\ passes' = [passes EXCEPT ![p].wait = FALSE,
                              ![p].pauseForkingTimeout = "fired"]
  /\ UNCHANGED <<children, sigintHandled, crashDetected, procs, finals, exited,
                 exitCode>>
  /\ Config /\ Build /\ Scan /\ Debouncer /\ UNCHANGED eventsLeft

\* delay(500) after the spawn elapses: the while (wait) loop is entered, or
\* continuePromise resolves.
GraceEnd(p) ==
  /\ ~exited /\ p \in 1..Len(passes) /\ passes[p].phase = "grace"
  /\ IF passes[p].wait
       THEN Commit([World EXCEPT !.passes[p].phase = "loop"])
       ELSE Commit(Advance(World, p))
  /\ Config /\ Build /\ Scan /\ Debouncer /\ UNCHANGED eventsLeft

\* A delay(500) of the while (wait) loop elapses with wait cleared.
LoopWake(p) ==
  /\ ~exited /\ p \in 1..Len(passes)
  /\ passes[p].phase = "loop" /\ ~passes[p].wait
  /\ Commit(Advance(World, p))
  /\ Config /\ Build /\ Scan /\ Debouncer /\ UNCHANGED eventsLeft

\* await kill(port) returns in the finalPortKilling run k: the next port, or
\* "stopped" and process.exit().
PortKilled(k) ==
  /\ ~exited /\ k \in 1..Len(finals)
  /\ IF finals[k] < Len(killPorts)
       THEN finals' = [finals EXCEPT ![k] = @ + 1]
            /\ UNCHANGED <<exited, exitCode>>
       ELSE exited' = TRUE
            /\ exitCode' = ProcessExit(World, Idle).exitCode
            /\ UNCHANGED finals
  /\ UNCHANGED <<children, sigintHandled, crashDetected, procs, passes>>
  /\ Config /\ Build /\ Scan /\ Debouncer /\ UNCHANGED eventsLeft

\* The state after the module's top level has run to its first await on a
\* watcher's 'ready' (lines 681-697, 863, 1161-1205).
Configured(c) ==
  /\ forkCommands = c.fork
  /\ spawnCommands = c.spawn
  /\ killPorts = c.kill

Constructed ==
  /\ children = <<>>
  /\ sigintHandled = FALSE
  /\ crashDetected = FALSE
  /\ watchersSetup = FALSE
  /\ procs = <<>>
  /\ passes = <<>>
  /\ finals = <<>>
  /\ exited = FALSE
  /\ debounce = Idle
  /\ scanDir = 1
  /\ scanLeft = Idle
  /\ sinceNotify = DebounceTicks
  /\ pendingNotify = 0
  /\ exitCode = Idle

Boot == (\E c \in Configs : Configured(c)) /\ Constructed

\* The watch directories hold no regular file and no package.json, and
\* getProdDeps has returned.
NothingToBuild ==
  /\ source = [p \in SourcePaths |-> 0]
  /\ output = [p \in OutPaths |-> 0]
  /\ ops = <<>>
  /\ prodDeps = {}
  /\ resolveDir = Len(watchDirs) + 1
  /\ tree = EmptyTree
  /\ watched = {} /\ visit = 1

Init == Boot /\ NothingToBuild /\ eventsLeft = MaxEvents

Slots == 1..MaxProcs

\* The callbacks the program's own timers, its children's life cycle and its
\* awaited calls bring about.
Internal ==
  \/ WatcherReady
  \/ ScanFile
  \/ Tick
  \/ RestartFire
  \/ \E s \in Slots : KillTimeout(s)
  \/ \E s \in Slots, code \in {0, 1} : ChildExit(s, code)
  \/ \E p \in Slots : SpawnEvent(p)
  \/ \E p \in Slots : PauseForking(p)
  \/ \E p \in Slots : ResumeForking(p)
  \/ \E p \in Slots : PauseTimeout(p)
  \/ \E p \in Slots : GraceEnd(p)
  \/ \E p \in Slots : LoopWake(p)
  \/ \E k \in Slots : PortKilled(k)

Next ==
  \/ Internal
  \/ Notify
  \/ Sigint
  \/ UncaughtException
  \/ \E s \in Slots, code \in {0, 1} : ChildCrash(s, code)

Spec == Init /\ [][Next]_vars

\* The runs with one source change more, in which no error is left uncaught.
ChangesInit == Boot /\ NothingToBuild /\ eventsLeft = MaxEvents + 1
ChangesNext ==
  \/ Internal
  \/ Notify
  \/ Sigint
  \/ \E s \in Slots, code \in {0, 1} : ChildCrash(s, code)
ChangesSpec == ChangesInit /\ [][ChangesNext]_vars

\* child 'error' while spawnPromise is pending (lines 778-780, 817-821): no
\* process was created, so the child emits no 'exit'; continuePromise rejects,
\* await continuePromise throws and the invocation of makeChildren ends, its
\* rejection logged by the caller's catch.
SpawnError(p) ==
  /\ ~exited /\ p \in 1..Len(passes)
  /\ passes[p].phase = "spawn" /\ passes[p].child # 0
  /\ procs' = [procs EXCEPT ![passes[p].child].failed = TRUE]
  /\ passes' = RemoveAt(passes, p)
  /\ UNCHANGED <<children, sigintHandled, crashDetected, finals, exited,
                 exitCode>>
  /\ Config /\ Build /\ Scan /\ Debouncer /\ UNCHANGED eventsLeft

\* The runs with the command lines of Configs and one with two spawn commands.
SpawnsConfigs ==
  Configs \cup {[fork |-> <<"fa">>, spawn |-> <<"sc", "sd">>, kill |-> <<>>]}
SpawnsInit ==
  /\ \E c \in SpawnsConfigs : Configured(c)
  /\ Constructed /\ NothingToBuild
  /\ eventsLeft = MaxEvents
SpawnsSpec == SpawnsInit /\ [][Next]_vars

\* The runs in which the operating system may fail to create a child.
ErrorNext == Next \/ \E p \in Slots : SpawnError(p)
ErrorSpec == Init /\ [][ErrorNext]_vars

\* The 'ready' callback of getProdDeps for watchDirs[resolveDir] (lines
\* 1120-1130): addProdDeps for the package.json found, and the promise
\* resolves; after the last directory getProdDeps adds the org entries and
\* returns. What addProdDeps throws is an uncaught exception (lines 693-695).
ResolverReady ==
  /\ ~exited /\ resolveDir <= Len(watchDirs) /\ finals = <<>>
  /\ LET r == IF tree.hasTop /\ watchDirs[resolveDir] = Top[1]
                THEN addProdDeps ELSE [error |-> "none", set |-> {}]
     IN IF r.error # "none"
          THEN /\ Commit(finalPortKilling(World))
               /\ UNCHANGED <<prodDeps, resolveDir>>
          ELSE /\ prodDeps' = IF resolveDir = Len(watchDirs)
                                THEN OrgExpansion(prodDeps \cup r.set)
                                ELSE prodDeps \cup r.set
               /\ resolveDir' = resolveDir + 1
               /\ Supervisor
  /\ UNCHANGED <<tree, watched, visit, eventsLeft>>
  /\ Config /\ Mirror /\ Scan /\ Debouncer

\* The runs from the call of getProdDeps (line 1159) on, over the trees.
ResolveInit ==
  /\ Boot
  /\ tree \in Trees
  /\ source = [p \in SourcePaths |-> 0]
  /\ output = [p \in OutPaths |-> 0]
  /\ ops = <<>>
  /\ prodDeps = {}
  /\ resolveDir = 1
  /\ watched = {} /\ visit = 1
  /\ eventsLeft = 0

ResolveNext ==
  \/ ResolverReady
  \/ WatcherReady
  \/ ScanFile
  \/ Tick
  \/ RestartFire
  \/ \E k \in Slots : PortKilled(k)

ResolveSpec == ResolveInit /\ [][ResolveNext]_vars

\* The trees in which a and the flat b are linked into each other's
\* node_modules.
LinkedTrees ==
  { [hasTop |-> TRUE, top |-> top,
     deps |-> [p \in {FlatA, FlatB} \cup ex |->
                 IF p = FlatA THEN da ELSE IF p = FlatB THEN db ELSE {}],
     links |-> {NestedB, BackLink} \cup (IF la THEN {FlatA} ELSE {})] :
      top \in {{}, {PkgA}, {PkgA, PkgB}, {PkgC}},
      ex \in SUBSET {FlatC, HoistedB}, la \in BOOLEAN,
      da \in {{}, {PkgB}}, db \in {{}, {PkgA}} }

\* The runs from the call of getProdDeps on, over the trees with and without
\* such links.
LinksInit ==
  /\ Boot
  /\ tree \in Trees \cup LinkedTrees
  /\ source = [p \in SourcePaths |-> 0]
  /\ output = [p \in OutPaths |-> 0]
  /\ ops = <<>>
  /\ prodDeps = {}
  /\ resolveDir = 1
  /\ watched = {} /\ visit = 1
  /\ eventsLeft = 0

LinksSpec == LinksInit /\ [][ResolveNext]_vars

\* The watcher of the scan of src comes to the next path (line 1176): it asks
\* ignored about a path that is on disk in a folder it has let through, and
\* watches what is not ignored.
Visit ==
  /\ ~exited /\ resolveDir > Len(watchDirs)
  /\ scanDir = 1 /\ scanLeft = Idle
  /\ visit <= Len(FilterOrder)
  /\ visit' = visit + 1
  /\ LET file == FilterOrder[visit]
     IN watched' =
          IF /\ file \in OnDisk
             /\ Parent(file) = Top \/ Parent(file) \in watched
             /\ ~ignored(file)
            THEN watched \cup {file} ELSE watched
  /\ UNCHANGED <<prodDeps, resolveDir, tree, eventsLeft>>
  /\ Config /\ Mirror /\ Supervisor /\ Scan /\ Debouncer

\* The runs from the call of getProdDeps to the end of the watcher's walk
\* through src.
FilterNext ==
  \/ ResolverReady
  \/ Visit
  \/ \E k \in Slots : PortKilled(k)

FilterSpec == ResolveInit /\ [][FilterNext]_vars

\* ------------------------------------------------------------------ mirror
\* The order in which a watcher lists the regular files.
FileOrder == << <<"src", "f.txt">>, <<"src", "g.js">>, <<"lib", "f.txt">> >>

\* const files of the loop over watchDirs[d] (lines 1205-1211): the directory
\* itself and the regular files in it.
Keys(d) ==
  << <<watchDirs[d]>> >>
    \o SelectSeq(FileOrder, LAMBDA p : /\ p[1] = watchDirs[d]
                                       /\ p \in DOMAIN source
                                       /\ source[p] # 0)

\* The key the loop is at.
ScanKey == Keys(scanDir)[Len(Keys(scanDir)) - scanLeft + 1]

\* The index in watchDirs of the directory a file is in.
DirOf(p) == CHOOSE d \in 1..Len(watchDirs) : watchDirs[d] = p[1]

\* The else branch of line 1223: the change handlers are registered.
RegistersHandlers == Len(forkCommands) # 0 \/ Len(spawnCommands) # 0

\* pass(f) for a regular file, up to where it leaves the event loop (lines
\* 948-981): readFileSync and await transform(...), or fs.copyFile(...) and
\* the return. scan: the loop over the files awaits this pass.
PassOp(f, contents, scan) ==
  IF shouldTransform(f)
    THEN [path |-> f, kind |-> "transform", data |-> contents, scan |-> scan]
    ELSE [path |-> f, kind |-> "copy", data |-> contents, scan |-> FALSE]

\* watcher.on('ready') (lines 1206-1210): the loop starts on the keys.
BuildReady ==
  /\ ~exited /\ scanDir <= Len(watchDirs) /\ scanLeft = Idle
  /\ resolveDir > Len(watchDirs)
  /\ scanLeft' = Len(Keys(scanDir))
  /\ UNCHANGED <<scanDir, watchersSetup>>
  /\ Config /\ Build /\ Supervisor /\ Debouncer /\ UNCHANGED eventsLeft

\* await pass(key) of the loop (line 1220): a directory is ensured and a copy
\* is started within the call, and the loop goes on; a transform is awaited.
ScanPass ==
  /\ ~exited /\ scanDir <= Len(watchDirs) /\ scanLeft > 0
  /\ \A i \in 1..Len(ops) : ~ops[i].scan
  /\ IF ScanKey \notin DOMAIN source
       THEN ops' = ops /\ AfterPass
       ELSE /\ ops' = Append(ops, PassOp(ScanKey, source[ScanKey], TRUE))
            /\ IF shouldTransform(ScanKey)
                 THEN Scan /\ Debouncer
                 ELSE AfterPass
  /\ UNCHANGED <<source, output, eventsLeft>>
  /\ Config /\ Resolver /\ Supervisor

\* await transform(...) returns in the pass ops[i] (lines 957-968): a string
\* goes to fs.writeFile and pass returns; anything else is thrown, which
\* rejects pass and with it the handler's or the module's promise, and the
\* 'uncaughtException' listener of line 693 runs.
TransformReturns(i, isString) ==
  /\ ~exited /\ i \in 1..Len(ops) /\ ops[i].kind = "transform"
  /\ IF isString
       THEN /\ ops' = [ops EXCEPT ![i] = [path |-> @.path, kind |-> "write",
                                           data |-> transform(@.data),
                                           scan |-> FALSE]]
            /\ IF ops[i].scan THEN AfterPass ELSE Scan /\ Debouncer
            /\ Supervisor
       ELSE /\ ops' = RemoveAt(ops, i)
            /\ Commit(finalPortKilling(World))
            /\ Scan /\ Debouncer
  /\ UNCHANGED <<source, output, eventsLeft>>
  /\ Config /\ Resolver

\* The callback of fs.writeFile (lines 963-968): the file is written, and
\* restart() is called.
WriteDone(i) ==
  /\ ~exited /\ i \in 1..Len(ops) /\ ops[i].kind = "write"
  /\ output' = [output EXCEPT ![getOutDirPath(ops[i].path)] = ops[i].data]
  /\ ops' = RemoveAt(ops, i)
  /\ RestartCalled
  /\ UNCHANGED <<source, eventsLeft>>
  /\ Config /\ Resolver /\ Supervisor /\ Scan

\* The callback of fs.copyFile (lines 975-980): the copy holds what the source
\* held when the call was made or what it holds now (the copy reads it at
\* some point in between); with no source there is an err and no copy. Then
\* restart() is called.
CopyDone(i) ==
  /\ ~exited /\ i \in 1..Len(ops) /\ ops[i].kind = "copy"
  /\ \E d \in {ops[i].data, source[ops[i].path]} :
       output' = IF d = 0 THEN output
                 ELSE [output EXCEPT ![getOutDirPath(ops[i].path)] = d]
  /\ ops' = RemoveAt(ops, i)
  /\ RestartCalled
  /\ UNCHANGED <<source, eventsLeft>>
  /\ Config /\ Resolver /\ Supervisor /\ Scan

\* watcher.on('add') and watcher.on('change') (lines 1232-1240): a file of a
\* watched directory gets new contents v, and the handler calls pass(f).
Change(p, v) ==
  /\ ~exited /\ eventsLeft > 0
  /\ RegistersHandlers /\ DirOf(p) < scanDir
  /\ v # source[p]
  /\ eventsLeft' = eventsLeft - 1
  /\ source' = [source EXCEPT ![p] = v]
  /\ ops' = Append(ops, PassOp(p, v, FALSE))
  /\ UNCHANGED output
  /\ Config /\ Resolver /\ Supervisor /\ Scan /\ Debouncer

\* watcher.on('unlink') (lines 1241-1251): a file of a watched directory is
\* deleted; the handler removes its output and calls restart().
Unlink(p) ==
  /\ ~exited /\ eventsLeft > 0
  /\ RegistersHandlers /\ DirOf(p) < scanDir
  /\ source[p] # 0
  /\ eventsLeft' = eventsLeft - 1
  /\ source' = [source EXCEPT ![p] = 0]
  /\ output' = [output EXCEPT ![getOutDirPath(p)] = 0]
  /\ RestartCalled
  /\ UNCHANGED ops
  /\ Config /\ Resolver /\ Supervisor /\ Scan

\* The directories the watchers report: the watch directories themselves.
Dirs == {<<watchDirs[d]>> : d \in 1..Len(watchDirs)}

\* Path q is r or lies below it.
IsUnder(q, r) == Len(q) >= Len(r) /\ SubSeq(q, 1, Len(r)) = r

\* An unlinkDir handler that calls restart() as the unlink handler does.
UnlinkDirNotifying(d) ==
  /\ ~exited /\ eventsLeft > 0
  /\ RegistersHandlers /\ DirOf(d) < scanDir
  /\ \A p \in SourcePaths : IsUnder(p, d) => source[p] = 0
  /\ eventsLeft' = eventsLeft - 1
  /\ output' = [q \in OutPaths |->
                  IF IsUnder(q, getOutDirPath(d)) THEN 0 ELSE output[q]]
  /\ RestartCalled
  /\ UNCHANGED <<source, ops>>
  /\ Config /\ Resolver /\ Supervisor /\ Scan

\* watcher.on('unlinkDir') (lines 1252-1263): a directory is deleted, after
\* the files in it; the handler removes its output path with all that is
\* below it, and logs in debug mode.
UnlinkDir(d) ==
  /\ ~exited /\ eventsLeft > 0
  /\ RegistersHandlers /\ DirOf(d) < scanDir
  /\ \A p \in SourcePaths : IsUnder(p, d) => source[p] = 0
  /\ eventsLeft' = eventsLeft - 1
  /\ output' = [q \in OutPaths |->
                  IF IsUnder(q, getOutDirPath(d)) THEN 0 ELSE output[q]]
  /\ UNCHANGED <<source, ops>>
  /\ Config /\ Resolver /\ Supervisor /\ Scan /\ Debouncer

\* With every watcher closed (line 1230), no callback pending and no timer
\* armed, nothing keeps the event loop alive: the process ends as by
\* process.exit().
EventLoopEmpty ==
  /\ ~exited /\ ~RegistersHandlers /\ scanDir > Len(watchDirs)
  /\ ops = <<>> /\ debounce = Idle
  /\ Commit(ProcessExit(World, Idle))
  /\ Config /\ Build /\ Scan /\ Debouncer /\ UNCHANGED eventsLeft

\* The runs in which the output tree is followed: the source files exist or do
\* not, outDir has been emptied (lines 678-679).
BuildInit ==
  /\ \E c \in BuildConfigs : Configured(c)
  /\ Constructed
  /\ source \in [SourcePaths -> {0, 1}]
  /\ output = [p \in OutPaths |-> 0]
  /\ ops = <<>>
  /\ prodDeps = {}
  /\ resolveDir = Len(watchDirs) + 1
  /\ tree = EmptyTree
  /\ watched = {} /\ visit = 1
  /\ eventsLeft = MaxChanges

\* The passes there may be at a time: one a file of the scan, one an event.
OpSlots == 1..(Len(FileOrder) + MaxChanges)

BuildNext ==
  \/ BuildReady
  \/ ScanPass
  \/ \E i \in OpSlots, isString \in BOOLEAN : TransformReturns(i, isString)
  \/ \E i \in OpSlots : WriteDone(i)
  \/ \E i \in OpSlots : CopyDone(i)
  \/ \E p \in SourcePaths, v \in 1..MaxVersion : Change(p, v)
  \/ \E p \in SourcePaths : Unlink(p)
  \/ Tick
  \/ RestartFire
  \/ \E p \in Slots : SpawnEvent(p)
  \/ \E p \in Slots : GraceEnd(p)
  \/ \E s \in Slots : KillTimeout(s)
  \/ \E s \in Slots, code \in {0, 1} : ChildExit(s, code)
  \/ EventLoopEmpty

BuildSpec == BuildInit /\ [][BuildNext]_vars

\* A file of the second watch directory with the path src/f.txt has below
\* the first.
LibPaths == {<<"lib", "f.txt">>}

\* The runs of the scan in which lib may hold such a file.
DirsInit ==
  /\ \E c \in BuildConfigs : Configured(c)
  /\ Constructed
  /\ source \in [SourcePaths \cup LibPaths -> {0, 1}]
  /\ output = [p \in OutPaths |-> 0]
  /\ ops = <<>>
  /\ prodDeps = {}
  /\ resolveDir = Len(watchDirs) + 1
  /\ tree = EmptyTree
  /\ watched = {} /\ visit = 1
  /\ eventsLeft = 0

DirsNext ==
  \/ BuildReady
  \/ ScanPass
  \/ \E i \in OpSlots, isString \in BOOLEAN : TransformReturns(i, isString)
  \/ \E i \in OpSlots : WriteDone(i)
  \/ \E i \in OpSlots : CopyDone(i)
  \/ Tick
  \/ RestartFire
  \/ \E p \in Slots : SpawnEvent(p)
  \/ \E p \in Slots : GraceEnd(p)
  \/ \E s \in Slots : KillTimeout(s)
  \/ \E s \in Slots, code \in {0, 1} : ChildExit(s, code)
  \/ EventLoopEmpty

DirsSpec == DirsInit /\ [][DirsNext]_vars

\* The runs of BuildSpec with the removal of directories among the events.
UnlinkNext == BuildNext \/ \E d \in Dirs : UnlinkDir(d)
UnlinkSpec == BuildInit /\ [][UnlinkNext]_vars

\* The runs of a watched build in which src/g.js does not exist at the scan
\* and the only events are adds and changes of src/g.js.
TwiceInit ==
  /\ \E c \in BuildConfigs : c.fork # <<>> /\ Configured(c)
  /\ Constructed
  /\ source \in {s \in [SourcePaths -> {0, 1}] : s[<<"src", "g.js">>] = 0}
  /\ output = [p \in OutPaths |-> 0]
  /\ ops = <<>>
  /\ prodDeps = {}
  /\ resolveDir = Len(watchDirs) + 1
  /\ tree = EmptyTree
  /\ watched = {} /\ visit = 1
  /\ eventsLeft = MaxChanges

TwiceNext ==
  \/ BuildReady
  \/ ScanPass
  \/ \E i \in OpSlots, isString \in BOOLEAN : TransformReturns(i, isString)
  \/ \E i \in OpSlots : WriteDone(i)
  \/ \E i \in OpSlots : CopyDone(i)
  \/ \E v \in 1..MaxVersion : Change(<<"src", "g.js">>, v)
  \/ Tick
  \/ RestartFire
  \/ \E p \in Slots : SpawnEvent(p)
  \/ \E p \in Slots : GraceEnd(p)
  \/ \E s \in Slots : KillTimeout(s)
  \/ \E s \in Slots, code \in {0, 1} : ChildExit(s, code)

TwiceSpec == TwiceInit /\ [][TwiceNext]_vars

\* ------------------------------------------------------------- properties
\* A step's new Executions: the slots that hold, after the step, a child that
\* fork or spawn has just made.
Started ==
  {s \in DOMAIN procs' :
     /\ procs'[s] = NewExecution(procs'[s].command, procs'[s].type)
     /\ s \notin DOMAIN procs \/ procs[s] # procs'[s]}

\* C1: once sigintHandled is set, no step starts a child (no fork, no spawn),
\* whichever callback runs.
C1_NoStartAfterSigint == [][sigintHandled => Started = {}]_vars

\* What the event loop and the operating system guarantee: an armed timer
\* expires, a pending callback runs, a started child spawns, kill(port)
\* returns, and a child on which child.kill() was called ends.
KilledExit ==
  \E s \in DOMAIN procs, code \in {0, 1} : procs[s].killed /\ ChildExit(s, code)

Fairness ==
  /\ WF_vars(WatcherReady)
  /\ WF_vars(ScanFile)
  /\ WF_vars(Tick)
  /\ WF_vars(RestartFire)
  /\ WF_vars(\E s \in Slots : KillTimeout(s))
  /\ WF_vars(KilledExit)
  /\ WF_vars(\E p \in Slots : SpawnEvent(p))
  /\ WF_vars(\E p \in Slots : PauseTimeout(p))
  /\ WF_vars(\E p \in Slots : GraceEnd(p))
  /\ WF_vars(\E p \in Slots : LoopWake(p))
  /\ WF_vars(\E k \in Slots : PortKilled(k))

FairSpec == Spec /\ Fairness

\* The runs in which no error is left uncaught and no child ends before it is
\* told to, under the same guarantees.
CalmNext == Internal \/ Notify \/ Sigint
CalmSpec == Init /\ [][CalmNext]_vars /\ Fairness

\* C2: after the first SIGINT the process exits (finalPortKilling has run to
\* its process.exit()), provided a hard-killed child ends.
C2_SigintLeadsToExit == sigintHandled ~> exited

\* C3: finalPortKilling is started at most once in a run: at no time are two
\* runs of it under way (a run that has started stays in finals until the
\* process exits).
C3_FinalPortKillOnce == Len(finals) <= 1

\* The step in which the debounce timer expires and the debounced function runs.
Fired == debounce = 0 /\ debounce' = Idle

\* C5: the debounced function runs only when a full window has passed since
\* the last restart() call, never sooner; each run answers at least one call
\* and takes all the calls made since the previous run with it; and a call that
\* has not been answered yet has the timer armed for it and is answered by a
\* run, unless the process exits first.
C5_OneRestartPerBurst ==
  /\ [][Fired => /\ sinceNotify = DebounceTicks
                 /\ pendingNotify >= 1
                 /\ pendingNotify' = 0]_vars
  /\ [](pendingNotify > 0 => debounce # Idle)
  /\ (pendingNotify > 0 ~> (pendingNotify = 0 \/ exited))

\* A burst of two calls less than a window apart, a full window after the
\* second one: the timer is about to expire, once.
C5_Witness ==
  pendingNotify = 2 /\ debounce = 0 /\ sinceNotify = DebounceTicks

\* C10: the keys of children are configured fork or spawn commands.
C10_KeysAreCommands == DOMAIN children \subseteq Commands

\* Every configured command is registered.
C10_Witness == children # <<>> /\ DOMAIN children = Commands

\* The children that carry the exit listener of the SIGINT handler.
SigintChildren(P) == {s \in DOMAIN P : "s" \in Range(P[s].listeners)}

\* The step in which a run of finalPortKilling starts.
FinalStarts ==
  \/ Len(finals') > Len(finals)
  \/ killPorts = <<>> /\ ~exited /\ exited'

\* C4: while a child that was registered at the SIGINT is alive, a run of
\* finalPortKilling starts only in a callback that leaves none of those
\* children alive and finds children empty (what is registered after the step
\* was started later in the same callback); and the process exits only from
\* the await of the last port's kill.
C4_FinalOnlyWhenAllExited ==
  /\ [][sigintHandled /\ SigintChildren(procs) # {} /\ FinalStarts
          => /\ SigintChildren(procs') = {}
             /\ \A k \in DOMAIN children' : children'[k] \in Started]_vars
  /\ [][~exited /\ exited' /\ killPorts # <<>>
          => \E k \in 1..Len(finals) : finals[k] = Len(killPorts)]_vars

IndexOf(seq, x) == CHOOSE i \in 1..Len(seq) : seq[i] = x

\* The child processes that run or are about to.
Live == {s \in DOMAIN procs : ~procs[s].failed}

\* The Execution in slot s of P is in the handshake a pass of Q awaits: it has
\* not spawned, is inside its grace, or holds a pause.
InHandshake(Q, s) ==
  \E q \in 1..Len(Q) :
    /\ Q[q].child = s
    /\ Q[q].phase \in {"spawn", "grace"} \/ Q[q].wait

\* C6: a step that forks the command at index j > 1 of forkCommands leaves the
\* registered Execution of the command at index j - 1 (if there is one) out
\* of its handshake: spawned, past its grace or resumed, and holding no pause.
C6_ForksSerial ==
  [][\A s \in Started :
       procs'[s].type = "fork" /\ IndexOf(forkCommands, procs'[s].command) > 1
         => LET a == forkCommands[IndexOf(forkCommands, procs'[s].command) - 1]
            IN a \in DOMAIN children' => ~InHandshake(passes', children'[a])]_vars

\* C7: no step starts a child while an Execution that was in children when the
\* latest draining restart ran is still registered.
C7_NoStartWhileDraining ==
  [][Started # {} =>
       \A k \in DOMAIN children' :
         children'[k] \in DOMAIN procs' => ~procs'[children'[k]].drain]_vars

\* Every configured command is registered, with an Execution made after the
\* latest draining restart.
AllRunningAgain ==
  /\ DOMAIN children = Commands
  /\ \A k \in DOMAIN children :
       children[k] \in DOMAIN procs /\ ~procs[children[k]].drain

\* C8: once a restart has drained children, every configured command is
\* eventually running again as a new Execution, unless a SIGINT arrives or the
\* process exits (in runs where no child ends of its own accord).
C8_RestartBringsAllBack ==
  (\E s \in DOMAIN procs : procs[s].drain)
    ~> (AllRunningAgain \/ sigintHandled \/ exited)

AllCommands == UNION {Range(c.fork) \cup Range(c.spawn) : c \in Configs}

\* The initial scan has completed, restart has not fired since and no child
\* has been started yet.
ScanJustDone ==
  /\ watchersSetup /\ ~sigintHandled
  /\ debounce # Idle /\ procs = <<>> /\ passes = <<>>

\* C9: the step that ends the initial scan without a SIGINT leaves the debounce
\* timer armed, so that restart fires with no further source change; and from
\* there every configured command is eventually registered in children,
\* unless a SIGINT arrives or the process exits.
C9_ScanStartsChildren ==
  /\ [][~watchersSetup /\ watchersSetup' /\ ~sigintHandled
          => ScanJustDone']_vars
  /\ \A c \in AllCommands :
       (ScanJustDone /\ c \in Commands)
         ~> (c \in DOMAIN children \/ sigintHandled \/ exited)

\* The scan is over, no source has changed since and no SIGINT has arrived:
\* every configured command is registered.
C9_Witness ==
  /\ watchersSetup /\ ~sigintHandled /\ eventsLeft = MaxEvents
  /\ DOMAIN children = Commands

\* The child in slot s ends in this step.
ExitOf(s) ==
  \E code \in {0, 1} : ChildExit(s, code) \/ ChildCrash(s, code)

\* C13: neither the run of restart (draining children or starting them into an
\* empty children) nor the exit of a child that carries only restart's exit
\* listener starts a run of finalPortKilling, the only caller of kill(port).
C13_RestartKillsNoPort ==
  /\ [][Fired => finals' = finals /\ exited' = exited]_vars
  /\ [][\A s \in Slots :
          ExitOf(s) /\ "s" \notin Range(procs[s].listeners)
            => finals' = finals /\ exited' = exited]_vars

\* Ports are configured, a restart has drained children and no port kill is
\* under way.
C13_Witness ==
  /\ killPorts # <<>> /\ finals = <<>> /\ ~exited /\ ~sigintHandled
  /\ \E s \in DOMAIN procs : procs[s].drain

\* C18: the SIGINT handler finds every fork child a makeChildren pass is
\* waiting on registered in children, and attaches its exit listener (with the
\* cleanup call for SIGINT) and arms the kill timer of wait ms on it.
C18_SigintReachesWaitingFork ==
  [][~sigintHandled /\ sigintHandled'
       => \A p \in 1..Len(passes) :
            passes[p].child # 0
              => /\ passes[p].child \in Registered(World)
                 /\ "s" \in Range(procs'[passes[p].child].listeners)
                 /\ procs'[passes[p].child].killTimeout = "sigint"]_vars

\* C19: in the run of restart the only children hard-killed are of spawn
\* kind; the default cleanup delivers SIGRES only as an IPC message and only to
\* a fork child, sends a spawn child SIGTERM on SIGRES, and never hands SIGRES
\* to child.kill.
C19_SigresOnlyByIpc ==
  /\ [][Fired =>
          \A s \in DOMAIN procs :
            s \in DOMAIN procs' /\ procs'[s].killed /\ ~procs[s].killed
              => procs[s].type = "spawn"]_vars
  /\ [](\A t \in {"fork", "spawn"}, sig \in {"SIGRES", "SIGINT"} :
          /\ defaultCleanup(t, sig).os # "SIGRES"
          /\ defaultCleanup(t, sig).ipc = "SIGRES" <=> t = "fork" /\ sig = "SIGRES"
          /\ t = "spawn" /\ sig = "SIGRES" => defaultCleanup(t, sig).os = "SIGTERM")

\* A restart has just drained a fork child and a spawn child with the default
\* cleanup: the spawn child is hard-killed, the fork child is not.
C19_Witness ==
  \E s, f \in DOMAIN procs :
    /\ procs[s].type = "spawn" /\ procs[s].killed
    /\ procs[s].killTimeout = "restart"
    /\ procs[f].type = "fork" /\ procs[f].drain /\ ~procs[f].killed

\* What the exit of the child in slot s with a nonzero code comes to: its
\* command is out of children, crashDetected is set, no child is started and
\* restart is not called.
CrashOnly(s) ==
  /\ procs[s].command \notin DOMAIN children'
  /\ crashDetected'
  /\ Started = {}
  /\ debounce' = debounce

\* C14 as stated: every exit with a nonzero code is such a step.
C14_NonzeroExitStartsNothing ==
  [][\A s \in Slots : ChildExit(s, 1) \/ ChildCrash(s, 1) => CrashOnly(s)]_vars

\* C14, for the children restart is not draining: the exit with a nonzero code
\* of a child that carries no exit listener of restart removes its command
\* from children, sets crashDetected, starts no child and calls neither
\* restart nor makeChildren.
C14_CrashStartsNothing ==
  [][\A s \in Slots :
       /\ ChildExit(s, 1) \/ ChildCrash(s, 1)
       /\ "r" \notin Range(procs[s].listeners)
       => CrashOnly(s)]_vars

\* A child has crashed since restart last ran: crashDetected is set and a
\* configured command is missing from children while nothing is being started.
C14_Witness ==
  /\ crashDetected /\ watchersSetup /\ passes = <<>> /\ debounce = Idle
  /\ DOMAIN children # Commands
  /\ \A s \in DOMAIN procs : procs[s].listeners = <<>>

\* ------------------------------------------------------ mirror properties
\* pass(p) returns in this step, having made the output hold want.
PassReturnsWith(p, want) == output'[getOutDirPath(p)] = want

\* C11: when pass(f) returns for a regular source file, the output path
\* exists and holds the source's contents (copy) or the transformer's result
\* (transform).
C11_OutputReadyWhenPassReturns ==
  /\ [][ScanPass /\ ScanKey \in SourcePaths /\ ~shouldTransform(ScanKey)
          => PassReturnsWith(ScanKey, source[ScanKey])]_vars
  /\ [][\A p \in SourcePaths, v \in 1..MaxVersion :
          Change(p, v) /\ ~shouldTransform(p) => PassReturnsWith(p, v)]_vars
  /\ [][\A i \in OpSlots :
          TransformReturns(i, TRUE)
            => PassReturnsWith(ops[i].path, transform(ops[i].data))]_vars

\* No pass is awaiting its transformer, no fs.copyFile or fs.writeFile is in
\* flight, every watcher is up and the program runs (the model delivers a
\* watch event with the change itself, so none is ever pending).
SteadyState == ops = <<>> /\ watchersSetup /\ ~exited

\* C12: at steady state the regular files under outDir are the mapped paths
\* of the source files that exist, whatever add, change and unlink events
\* came, an unlink during a copy or transform of the same path included.
C12_OutputMatchesSource ==
  SteadyState
    => \A p \in SourcePaths : (output[getOutDirPath(p)] # 0) = (source[p] # 0)

\* C15: when the transformer returns something that is not a string, nothing
\* is written to the output, no restart() call is made for the file, and the
\* process ends with an exit code other than 0, in the scan and on a later
\* change alike.
C15_NonStringEndsNonzero ==
  [][\A i \in OpSlots :
       TransformReturns(i, FALSE)
         => /\ output' = output
            /\ debounce' = debounce /\ pendingNotify' = pendingNotify
            /\ exited' /\ exitCode' \notin {Idle, 0}]_vars

\* C17: with no fork and no spawn command, no Execution is ever made, no
\* change handler ever runs, and the process ends with exit code 0 only when
\* every source file is mirrored and no write or copy is still in flight.
C17_OneShotBuild ==
  ~RegistersHandlers
    => /\ procs = <<>> /\ children = <<>>
       /\ eventsLeft = MaxChanges
       /\ exited /\ exitCode = 0
            => /\ ops = <<>>
               /\ \A p \in SourcePaths :
                    source[p] # 0 => output[getOutDirPath(p)] # 0
\* ---------------------------------------------------- resolver properties
\* A dependency named in the manifest of a collected folder is found in the
\* node_modules of no ancestor: addProdDeps throws at line 1043.
Unresolved == tree.hasTop /\ addProdDeps.error = "unresolved"

\* C16: when a dependency of a collected folder cannot be resolved,
\* getProdDeps returns no set, nothing is scanned or mirrored, no child is
\* started, and the process ends with an exit code other than 0.
C16_UnresolvedFailsNonzero ==
  Unresolved
    => /\ resolveDir <= Len(watchDirs) /\ prodDeps = {}
       /\ scanDir = 1 /\ scanLeft = Idle
       /\ output = [p \in OutPaths |-> 0]
       /\ procs = <<>>
       /\ exited => exitCode \notin {Idle, 0}

\* C20: the set getProdDeps returns is closed under the expansion rule: for
\* every folder D in it that has a manifest and every dependency x of that
\* manifest, the folder the upward search from D finds for x is in the set.
C20_ClosedUnderExpansion ==
  resolveDir > Len(watchDirs)
    => \A D \in prodDeps :
         pathExistsSync(D)
           => \A x \in tree.deps[D] :
                escalade(D, x) # NotFound /\ escalade(D, x) \in prodDeps

\* getProdDeps has returned a set in which b was found nested under a
\* although a flat b is installed too, and the nested b brought in @o/c.
C20_Witness ==
  /\ resolveDir > Len(watchDirs)
  /\ NestedB \in prodDeps /\ FlatC \in prodDeps
  /\ pathExistsSync(FlatB) /\ FlatB \notin prodDeps
\* -------------------------------------------------- supervisor properties
\* A restart is draining: an Execution in children carries the exit listener
\* of restart (cleanup was called on it with SIGRES, and R is not empty).
Draining == \E s \in Registered(World) : "r" \in Range(procs[s].listeners)

\* The step calls no cleanup and attaches no exit listener: every child that
\* stays has the listeners it had and is killed only if it was.
NothingCleaned ==
  \A s \in DOMAIN procs \cap DOMAIN procs' :
    /\ procs'[s].listeners = procs[s].listeners
    /\ procs'[s].killed = procs[s].killed

\* C22: while a restart is draining, a run of the debounced function starts
\* no second restart action: it calls cleanup on no Execution again and
\* attaches no further exit listener.
C22_OneRestartInFlight == [][Fired /\ Draining => NothingCleaned]_vars

\* C23: every live child the supervisor started is the child recorded in
\* children under its command, so no command has two live children; no exit
\* listener of an earlier child removes the entry of a later one.
C23_LiveChildIsRegistered ==
  \A s \in Live :
    /\ procs[s].command \in DOMAIN children
    /\ children[procs[s].command] = s

\* C24: once sigintHandled is set, a run of the debounced function changes
\* nothing: no cleanup, no exit listener, every armed kill timer of the
\* shutdown as it was, crashDetected as it was.
C24_RestartNoOpAfterSigint ==
  [][Fired /\ sigintHandled
       => /\ procs' = procs /\ children' = children /\ passes' = passes
          /\ crashDetected' = crashDetected]_vars

\* C25: at most one invocation of makeChildren is in progress (suspended at
\* await continuePromise) at any time.
C25_OneMakeChildren == Len(passes) <= 1

\* C26: when a fork child that sent pauseForking exits before resumeForking,
\* the exit releases the hold: the pass that forked it no longer waits on the
\* pause.
C26_ExitReleasesPause ==
  \A p \in 1..Len(passes) : passes[p].child = 0 => ~passes[p].wait

\* C30: when the supervisor process has exited, no child it started is alive.
C30_NoChildOutlivesSupervisor == exited => Live = {}
\* The loop over the files calls restart() for the regular file p in this
\* step (line 1221): pass(p) has returned.
ScanNotifies(p) ==
  \/ ScanPass /\ ScanKey = p /\ ~shouldTransform(p)
  \/ \E i \in OpSlots :
       TransformReturns(i, TRUE) /\ ops[i].scan /\ ops[i].path = p

\* A copy or write of p is in flight in the sequence of passes o.
InFlight(o, p) == \E i \in 1..Len(o) : o[i].path = p

\* C28: restart() is not called on behalf of a regular file before its write
\* or copy to the output has completed, in the initial scan as on a change
\* event.
C28_NotifyAfterWrite ==
  /\ [][\A p \in SourcePaths : ScanNotifies(p) => ~InFlight(ops', p)]_vars
  /\ [][\A p \in SourcePaths, v \in 1..MaxVersion :
          Change(p, v) => UNCHANGED <<debounce, pendingNotify>>]_vars
\* C29: when starting a fork child fails with a spawn error, its command does
\* not remain in children, and the next run of the debounced function starts
\* the command again.
C29_SpawnErrorFreesCommand ==
  /\ [][\A p \in Slots :
          SpawnError(p)
            => procs[passes[p].child].command \notin DOMAIN children']_vars
  /\ [][Fired /\ watchersSetup
          => \A s \in DOMAIN procs :
               procs[s].failed
                 => \E n \in Started :
                      procs'[n].command = procs[s].command]_vars
\* The children of one kind a step starts.
StartedOf(type) == {s \in Started : procs'[s].type = type}

\* The pass p leaves its handshake in this step: resumeForking has come, or
\* the grace or a delay of the wait loop ends with no pause held.
HandshakeEnds(p) ==
  \/ ResumeForking(p)
  \/ GraceEnd(p) /\ ~passes[p].wait
  \/ LoopWake(p)

\* C27: a step of makeChildren that starts a spawn command forks nothing and
\* is the step in which the invocation leaves the handshake of the last fork
\* command it had to start (every later fork command is in children already);
\* it starts every spawn command not in children, in the order of
\* spawnCommands.
C27_SpawnsAfterForks ==
  [][StartedOf("spawn") # {}
       => /\ StartedOf("fork") = {}
          /\ \E p \in 1..Len(passes) :
               /\ HandshakeEnds(p)
               /\ \A i \in (passes[p].i + 1)..Len(forkCommands) :
                    forkCommands[i] \in DOMAIN children
          /\ {procs'[s].command : s \in StartedOf("spawn")}
               = Range(spawnCommands) \ DOMAIN children
          /\ \A s, n \in StartedOf("spawn") :
               s < n => IndexOf(spawnCommands, procs'[s].command)
                          < IndexOf(spawnCommands, procs'[n].command)]_vars

\* fa has finished its handshake and sc and sd run, started in this order.
C27_Witness ==
  /\ passes = <<>> /\ DOMAIN children = {"fa", "sc", "sd"}
  /\ procs[children["fa"]].spawned
  /\ children["sc"] < children["sd"]
  /\ \A s \in DOMAIN procs : procs[s].listeners = <<>>
\* ------------------------------------------------------ filter properties
\* The longest prefix of file of the form
\* <anything>/node_modules/[@scope/]name.
LongestPrefix(file) ==
  LET j == CHOOSE i \in 1..Len(file) - 1 :
             /\ file[i] = NM
             /\ \A k \in (i + 1)..(Len(file) - 1) : file[k] # NM
      e == IF file[j + 1] \in Scopes /\ j + 2 <= Len(file) THEN j + 2 ELSE j + 1
  IN SubSeq(file, 1, e)

\* file has a node_modules segment.
IsVendor(file) == \E i \in 1..Len(file) : file[i] = NM

\* What the rule of the vendor paths accepts.
VendorRule(file) ==
  IF Last(file) = NM THEN TRUE
  ELSE IF Last(file) \in BinNames THEN FALSE
  ELSE LongestPrefix(file) \in prodDeps

\* The paths the watcher has asked ignored about so far.
Asked ==
  {FilterOrder[k] : k \in {n \in 1..(visit - 1) :
     /\ FilterOrder[n] \in OnDisk
     /\ Parent(FilterOrder[n]) = Top \/ Parent(FilterOrder[n]) \in watched}}

\* C21: a path with a node_modules segment is let through iff its package
\* prefix is in prodDeps, a path that ends in node_modules always and .bin
\* never; so when src/package.json lists a and a lists b, the files of a and
\* of the b found for it are watched, and nothing of z, which nobody lists.
C21_VendorFilter ==
  /\ \A file \in Asked :
       IsVendor(file) => ((file \in watched) = VendorRule(file))
  /\ visit > Len(FilterOrder) /\ PkgA \in tree.top /\ FlatA \in DOMAIN tree.deps
       => /\ FlatA \o <<"index.js">> \in watched
          /\ PkgB \in tree.deps[FlatA] /\ escalade(FlatA, PkgB)[1] = Top[1]
               => escalade(FlatA, PkgB) \o <<"index.js">> \in watched
          /\ PkgZ \notin watched /\ PkgZ \o <<"index.js">> \notin watched

\* ------------------------------------------------------- pause properties
\* Pass p goes on with the loop of makeChildren after its timeout has fired.
GoesOnAfterTimeout(p) ==
  /\ p \in 1..Len(passes)
  /\ passes[p].pauseForkingTimeout = "fired"
  /\ GraceEnd(p) \/ LoopWake(p)

\* The fork commands after index i that are not registered.
ForksLeft(i) ==
  {j \in (i + 1)..Len(forkCommands) : forkCommands[j] \notin DOMAIN children}

\* C31: the 30 s timeout clears wait; the pass whose timeout has fired goes on
\* by forking the next fork command that is not running or, with none left,
\* by spawning every spawn command that is not running; and a pass that holds
\* a pause does not hold it for ever: it goes on, or the process exits.
C31_PauseTimeoutUnblocks ==
  /\ [][\A p \in Slots : PauseTimeout(p) => ~passes'[p].wait]_vars
  /\ [][\A p \in Slots : GoesOnAfterTimeout(p) =>
          IF ForksLeft(passes[p].i) # {}
            THEN \E s \in Started :
                   /\ procs'[s].type = "fork"
                   /\ procs'[s].command
                        = forkCommands[Min(ForksLeft(passes[p].i))]
            ELSE Range(spawnCommands) \subseteq DOMAIN children']_vars
  /\ (\E p \in 1..Len(passes) : passes[p].wait)
       ~> (exited \/ \A p \in 1..Len(passes) : ~passes[p].wait)

\* A fork child paused the forking and has not resumed it; the timeout has
\* fired while the pass was in its wait loop, and commands are yet to start.
C31_Witness ==
  \E p \in 1..Len(passes) :
    /\ passes[p].pauseForkingTimeout = "fired" /\ passes[p].phase = "loop"
    /\ passes[p].child # 0 /\ ~passes[p].wait
    /\ DOMAIN children # Commands

\* -------------------------------------------------------- scan properties
\* C32: until the initial scan of every watch directory has completed
\* (watchersSetup), a firing of the debounced restart changes nothing of the
\* supervisor's state, children is empty and no step starts a child.
C32_NoRestartDuringScan ==
  /\ [][Fired /\ ~watchersSetup =>
          UNCHANGED <<children, procs, passes, crashDetected, finals>>]_vars
  /\ [](~watchersSetup => children = <<>> /\ procs = <<>> /\ passes = <<>>)
  /\ [][~watchersSetup => Started = {}]_vars

\* The scan is at its second directory and the timer its first restart()
\* calls armed has expired, with commands configured.
C32_Witness ==
  /\ ~watchersSetup /\ scanDir = 2 /\ scanLeft > 0
  /\ debounce = Idle /\ pendingNotify = 0
  /\ Commands # {} /\ ~sigintHandled /\ ~exited

\* ---------------------------------------------------- fixpoint properties
\* C33: on every tree, with cycles among the dependencies and with packages
\* linked to each other, the while loop of addProdDeps ends by its own
\* condition (nothing newly added) or by a throw for a missing folder or an
\* unresolved dependency: it never goes on until the operating system refuses
\* to follow the links of a path.
C33_FixpointTerminates ==
  tree.hasTop /\ (exited \/ finals # <<>>) => addProdDeps.error # "ELOOP"

\* --------------------------------------------------- crash flag properties
\* A child ends with a code other than 0 in this step.
NonzeroExit == \E s \in Slots : ChildExit(s, 1) \/ ChildCrash(s, 1)

\* The debounced function runs and passes its guards (lines 865-871).
GuardedRestart == Fired /\ watchersSetup /\ Commands # {}

\* C34: crashDetected is set by every exit of a child with a code other than
\* 0 and by nothing else, and cleared by every restart that passes its guards
\* and by nothing else, so that it tells whether a child has ended with such
\* a code since the latest such restart; a restart that finds children empty
\* and the flag set starts children and leaves the flag cleared.
C34_CrashFlag ==
  /\ [][NonzeroExit => crashDetected']_vars
  /\ [][GuardedRestart => ~crashDetected']_vars
  /\ [][crashDetected' # crashDetected => NonzeroExit \/ GuardedRestart]_vars
  /\ [][GuardedRestart /\ crashDetected /\ children = <<>>
          => Started # {} /\ children' # <<>>]_vars
  /\ [](~watchersSetup => ~crashDetected)

\* A child has crashed, children is empty and the debounce timer is about to
\* expire.
C34_Witness ==
  /\ crashDetected /\ children = <<>> /\ procs = <<>>
  /\ watchersSetup /\ debounce = 0 /\ ~exited /\ ~sigintHandled

\* ------------------------------------------------- concurrency properties
\* C35: when the add and the change of src/g.js have both been processed (the
\* transformer has returned a string for each and both writes have completed),
\* the output file holds the transformer's result for the contents the source
\* has, whichever transformer call and whichever write completed first.
C35_LaterChangeWins ==
  eventsLeft = 0 /\ ops = <<>> /\ ~exited
    => output[getOutDirPath(<<"src", "g.js">>)]
         = transform(source[<<"src", "g.js">>])

\* ---------------------------------------------------- kill timer properties
\* cleanup has been called on the Execution in slot s: restart and the SIGINT
\* handler attach their exit listener right before the call.
CleanupInvoked(s) == procs[s].listeners # <<>>

\* C36: every child on which cleanup has been called and which has not ended
\* has its kill timer armed, or child.kill() has been called on it already.
C36_KillTimerArmed ==
  \A s \in Live :
    CleanupInvoked(s) => procs[s].killTimeout # "none" \/ procs[s].killed

\* ------------------------------------------------ plain path properties
\* C37: no path that ends with ~ is let through by the filter: none is among
\* the watched paths, which are the keys the scan loop passes and calls
\* restart() for and the paths the watcher emits add and change events for.
C37_TempFilesRejected == \A file \in watched : Last(file) \notin TempNames

C39_UnlinkNotifiesDirDoesNot ==
  /\ [][\A p \in SourcePaths :
          Unlink(p) => /\ output'[getOutDirPath(p)] = 0
                       /\ debounce' = DebounceTicks
                       /\ sinceNotify' = 0 /\ pendingNotify' >= 1]_vars
  /\ [][\A d \in Dirs :
          UnlinkDir(d)
            => /\ \A q \in OutPaths :
                    IsUnder(q, getOutDirPath(d)) => output'[q] = 0
               /\ UNCHANGED <<debounce, sinceNotify, pendingNotify>>]_vars

\* A directory has been removed while the debounce timer was idle: a source
\* file exists and no pass is under way for it, yet nothing is under outDir,
\* and the timer is idle still.
C39_Witness ==
  /\ source[<<"src", "f.txt">>] # 0 /\ ops = <<>>
  /\ output = [q \in OutPaths |-> 0]
  /\ watchersSetup /\ debounce = Idle /\ pendingNotify = 0 /\ ~exited

\* --------------------------------------------------- path mapper properties
\* C40: a pass under way for a source file writes to an output path that no
\* other source file that exists maps to: getOutDirPath maps two different
\* source files to two different output paths, files with the same path
\* below two watch directories included.
C40_OutputPathsDistinct ==
  \A i \in 1..Len(ops) :
    \A q \in DOMAIN source :
      q # ops[i].path /\ source[q] # 0
        => getOutDirPath(q) # getOutDirPath(ops[i].path)
====
